---- MODULE Spec2Model ----
(***************************************************************************)
(* A model of one AnalyticsMesh node (src/src/analytics_mesh.py): the      *)
(* constructor's validation, start_handler / reader_work, update_sketch,   *)
(* imerge (push and push_pull), pull, committer_work with both write       *)
(* protocols, the periodic committer, stop_handler, and a process kill     *)
(* followed by a restart.  The node has no lock: every Python statement    *)
(* that reads or writes self.sketch / self.is_dirty, and every file-system *)
(* call, is a step of its own, and the steps of different threads          *)
(* interleave.  A second specification, SpecMesh, models several nodes     *)
(* gossiping (client_work_periodic, push_pull, push, pull, imerge).        *)
(***************************************************************************)
EXTENDS Integers, Sequences, FiniteSets, TLC

\* ------------------------------------------------------------------ bounds
MaxItem == 2
MaxOps == 2
MaxFailures == 1
MaxRestarts == 1
NumWorkers == 1
MaxSignals == 1
NumNodes == 3
MaxNetFailures == 1
MaxCalls == 3
MaxHelperFailures == 2
NumSignalKinds == 2
MaxStarts == 2
MaxDeliveries == 2
MaxDepth == 2

\* --------------------------------------------------------------- constants
LOG_K == 21
ANTI_ENTROPY_MAX_CLIENTS == 3

Items == 1..MaxItem
Sketches == SUBSET Items

\* A file: absent, or present with its bytes.
Absent == [exists |-> FALSE, bytes |-> <<>>]
FileOf(b) == [exists |-> TRUE, bytes |-> b]

STRICT == "strict"
DELAYED == "delayed"
VOLATILE == "volatile"
DurabilityLevel == {STRICT, DELAYED, VOLATILE}

\* ------------------------------------------------------- the sketch library
\* A sketch is modelled by the set of items folded into it; its compact
\* serialization is a header (LOG_K, item count) followed by the items in
\* increasing order, so that a truncated or empty byte string never decodes.
RECURSIVE SortedSeq(_)
SortedSeq(S) ==
    IF S = {} THEN <<>>
    ELSE LET m == CHOOSE x \in S : \A y \in S : x <= y
         IN <<m>> \o SortedSeq(S \ {m})

serialize_compact(s) == <<LOG_K, Cardinality(s)>> \o SortedSeq(s)

WellFormed(b) ==
    /\ Len(b) >= 2
    /\ b[1] = LOG_K
    /\ b[2] = Len(b) - 2
    /\ \A i \in 3..Len(b) : b[i] \in Nat /\ b[i] >= 1
    /\ \A i \in 3..(Len(b) - 1) : b[i] < b[i + 1]

\* hll_sketch.deserialize: the sketch, or CorruptSketch for malformed bytes
CorruptSketch == "CorruptSketch"
deserialize(b) ==
    IF WellFormed(b) THEN {b[i] : i \in 3..Len(b)} ELSE CorruptSketch

\* hll_sketch.update(datum)
sketch_update(s, datum) == s \cup {datum}

\* hll_union(LOG_K); union.update(a); union.update(b); union.get_result()
hll_union(a, b) == a \cup b

Prefixes(b) == {SubSeq(b, 1, n) : n \in 0..Len(b)}

\* ----------------------------------------------------------------- threads
Main == <<"main", 0>>
Client == <<"client", 0>>
Committer == <<"committer", 0>>
Workers == {<<"worker", i>> : i \in 1..NumWorkers}
Threads == {Main, Client, Committer} \cup Workers

VARIABLES
    phase,            \* new | rejected | constructed | running | exited | killed
    durability_level, \* self.durability_level
    atomicity_arg,    \* the constructor's atomicity argument: "None", "True", "False"
    atomicity,        \* self.atomicity
    sketch_file,      \* self.sketch_file: "None" or "path"
    path_state,       \* what the constructor's os.path / os.access calls see
    server_address,   \* self.server_address: "None" or "addr"
    sketch,           \* self.sketch
    is_dirty,         \* self.is_dirty
    continue_client,  \* self.continue_client
    continue_committer, \* self.continue_committer
    server_up,        \* self.server is serving (started and not stopped)
    server_thread,    \* the server thread: off | started (self.server is None)
                      \* | serving | raised (ended, self.server still None)
                      \* | stopped (self.server.stop() was called)
    target,           \* content of the file at sketch_file: Absent or bytes
    temp,             \* content of each thread's temporary file
    pc,               \* each thread's position
    op,               \* the operation each thread is running
    arg,              \* update_sketch's datum / imerge's other
    merged_sketch,    \* imerge's local merged_sketch
    new_dirty,        \* the value imerge is about to store into is_dirty
    payload,          \* the bytes a flush serialized
    ret,              \* what the thread's last call returned: committer_work's
                      \* value, or "raise" for an exception
    overlap,          \* history: another thread's flush touched the files
                      \* during this thread's flush
    io,               \* history: the file operations done on sketch_file
    returned,         \* history: the data whose update_sketch has returned
    ops,              \* operations started so far (bounded by MaxOps)
    fails,            \* I/O failures injected so far (bounded by MaxFailures)
    restarts,         \* restarts after a kill (bounded by MaxRestarts)
    signals,          \* signals delivered so far (bounded by MaxSignals)
    mesh_sketch,      \* in a mesh of nodes: each node's self.sketch
    mesh_is_dirty,    \* each node's self.is_dirty
    mesh_client,      \* each node's client thread: position, the addresses
                      \* still to visit, the peer in hand, imerge's merged_sketch
    mesh_worker,      \* the server worker serving each client's push at its
                      \* peer: position, the payload received, imerge's merged_sketch
    mesh_fails,       \* transport failures so far (bounded by MaxNetFailures)
    sigs,             \* the signal dispositions of the process and the node's
                      \* self.prev_signal_handlers, with the position of the
                      \* main thread among start, handler and stop
    helper            \* a ThriftHelper and its connection: _reliable, the
                      \* transport's isOpen(), the position of the call in
                      \* hand, its attempts and outcome, the calls and the
                      \* transport failures so far

cfgvars == <<durability_level, atomicity_arg, atomicity, sketch_file, path_state,
             server_address>>
memvars == <<sketch, is_dirty, continue_client, continue_committer, server_up,
             server_thread>>
fsvars == <<target, temp>>
thvars == <<pc, op, arg, merged_sketch, new_dirty, payload, ret>>
histvars == <<overlap, io, returned>>
budgets == <<ops, fails, restarts, signals>>
nodevars == <<phase, cfgvars, memvars, fsvars, thvars, histvars, budgets>>
meshvars == <<mesh_sketch, mesh_is_dirty, mesh_client, mesh_worker, mesh_fails, sigs, helper>>
vars == <<nodevars, meshvars>>


\* ------------------------------------------------------------ construction
PathStates == {"ok", "empty_basename", "is_dir", "not_writable", "dir_not_writable"}
InitialFiles == {Absent, FileOf(serialize_compact({1})), FileOf(<<LOG_K>>)}

NoOp == [t \in Threads |-> "none"]
NoSketch == [t \in Threads |-> {}]
NoBytes == [t \in Threads |-> <<>>]
NoFlag == [t \in Threads |-> FALSE]

\* The mesh: nodes 1..NumNodes, each fed one item of its own, each configured
\* with the nodes after it as its peers (client_addresses).
Nodes == 1..NumNodes
Input(n) == {n}
Peers(n) == {m \in Nodes : m > n}
AllInputs == UNION {Input(n) : n \in Nodes}

ClientOff == [pc |-> "sleep", todo |-> {}, peer |-> 0, merged_sketch |-> {}]
WorkerOff == [pc |-> "none", payload |-> <<>>, merged_sketch |-> {}]

\* The signals start_handler installs signal_handler for (NumSignalKinds of
\* SIGINT, SIGTERM, SIGQUIT, SIGABRT, SIGHUP, SIGTSTP, SIGPWR).
SignalKinds == 1..NumSignalKinds

\* The dispositions a signal can have had before the node started: it
\* terminates the process, raises KeyboardInterrupt in the main thread, or
\* lets the process go on.
Dispositions == {"terminate", "interrupt", "resume"}

\* No node has touched the signals.
SigsOff == [pc |-> "none", back |-> "none", cur |-> 0, depth |-> 0,
            orig |-> [s \in SignalKinds |-> "resume"],
            handler |-> [s \in SignalKinds |-> "original"],
            prev_signal_handlers |-> [s \in SignalKinds |-> "absent"],
            threads |-> FALSE, starts |-> 0,
            delivered |-> [s \in SignalKinds |-> 0],
            delegated |-> [s \in SignalKinds |-> 0]]

\* No ThriftHelper has been made.
HelperOff == [reliable |-> FALSE, is_open |-> FALSE, pc |-> "none", method |-> "none",
              attempts |-> 0, result |-> "none", calls |-> 0, fails |-> 0]

\* A single node on its own: no mesh.
NoMesh ==
    /\ mesh_sketch = [n \in Nodes |-> {}]
    /\ mesh_is_dirty = [n \in Nodes |-> FALSE]
    /\ mesh_client = [n \in Nodes |-> ClientOff]
    /\ mesh_worker = [n \in Nodes |-> WorkerOff]
    /\ mesh_fails = 0
    /\ helper = HelperOff
    /\ sigs = SigsOff

Init ==
    /\ phase = "new"
    /\ durability_level \in DurabilityLevel
    /\ atomicity_arg \in {"None", "True", "False"}
    /\ atomicity = FALSE
    /\ sketch_file \in {"None", "path"}
    /\ path_state \in IF sketch_file = "None" THEN {"none"} ELSE PathStates
    /\ server_address \in {"None", "addr"}
    /\ sketch = {}
    /\ is_dirty = FALSE
    /\ continue_client = FALSE
    /\ continue_committer = FALSE
    /\ server_up = FALSE
    /\ server_thread = "off"
    /\ target \in IF path_state = "ok" THEN InitialFiles ELSE {Absent}
    /\ temp = [t \in Threads |-> Absent]
    /\ pc = [t \in Threads |-> "off"]
    /\ op = NoOp
    /\ arg = NoSketch
    /\ merged_sketch = NoSketch
    /\ new_dirty = NoFlag
    /\ payload = NoBytes
    /\ ret = NoOp
    /\ overlap = NoFlag
    /\ io = {}
    /\ returned = {}
    /\ ops = 0
    /\ fails = 0
    /\ restarts = 0
    /\ signals = 0
    /\ NoMesh

\* self.atomicity = atomicity or (self.durability_level != VOLATILE)
InitAtomicity(a, d) == (a = "True") \/ (d # VOLATILE)

\* The ValueError checks of __init__, in the order of the code; "ok" when
\* none raises.
InitCheck(d, a, f, p) ==
    IF d = VOLATILE /\ InitAtomicity(a, d) THEN "atomicity_with_volatile"
    ELSE IF d # VOLATILE /\ f = "None" THEN "sketch_file_required"
    ELSE IF f # "None" /\ p # "ok" THEN p
    ELSE "ok"

\* The os.path.isdir / os.path.exists / os.access calls __init__ reaches.
InitStats(d, a, f, p) ==
    IF InitCheck(d, a, f, p) \in {"atomicity_with_volatile", "sketch_file_required"}
       \/ f = "None" \/ p = "empty_basename"
    THEN {} ELSE {"stat"}

\* AnalyticsMesh.__init__
Construct ==
    /\ phase = "new"
    /\ atomicity' = InitAtomicity(atomicity_arg, durability_level)
    /\ io' = io \cup InitStats(durability_level, atomicity_arg, sketch_file, path_state)
    /\ IF InitCheck(durability_level, atomicity_arg, sketch_file, path_state) = "ok"
       THEN /\ phase' = "constructed"
            /\ continue_client' = TRUE
            /\ continue_committer' = (durability_level = DELAYED)
       ELSE /\ phase' = "rejected"
            /\ UNCHANGED <<continue_client, continue_committer>>
    /\ atomicity_arg' = "None"
    /\ UNCHANGED <<durability_level, sketch_file, path_state, server_address,
                   sketch, is_dirty, server_up, server_thread, fsvars, thvars,
                   overlap, budgets>>
    /\ UNCHANGED <<returned, meshvars>>

\* ------------------------------------------------------------------- start
\* start_handler: reader_work, the signal handlers, then the server, client
\* and committer threads (enable_server and enable_client are on).
\* reader_work raising (CorruptSketch, or an I/O error other than "not found")
\* leaves __enter__, and the process, before any thread exists.
StartedPc ==
    [t \in Threads |->
        IF t = Committer /\ durability_level # DELAYED THEN "off" ELSE "idle"]

\* (A start that starts the threads without the load.)
StartHandler_WithoutLoad ==
    /\ phase = "constructed"
    /\ phase' = "running"
    /\ pc' = StartedPc
    /\ server_up' = FALSE
    /\ server_thread' = "started"
    /\ UNCHANGED <<cfgvars, sketch, is_dirty, continue_client, continue_committer, fsvars,
                   op, arg, merged_sketch, new_dirty, payload, ret, histvars, budgets>>
    /\ UNCHANGED meshvars

StartHandler ==
    /\ phase = "constructed"
    /\ IF sketch_file = "None"
       THEN /\ phase' = "running"
            /\ pc' = StartedPc
            /\ UNCHANGED <<sketch, io, fails>>
       ELSE IF ~target.exists
       THEN /\ phase' = "running"
            /\ pc' = StartedPc
            /\ io' = io \cup {"open"}
            /\ UNCHANGED <<sketch, fails>>
       ELSE \/ /\ io' = io \cup {"open", "read"}
               /\ IF ~WellFormed(target.bytes)
                  THEN /\ phase' = "exited"
                       /\ UNCHANGED <<sketch, pc>>
                  ELSE /\ phase' = "running"
                       /\ sketch' = deserialize(target.bytes)
                       /\ pc' = StartedPc
               /\ UNCHANGED fails
            \/ /\ fails < MaxFailures
               /\ fails' = fails + 1
               /\ io' = io \cup {"open"}
               /\ phase' = "exited"
               /\ UNCHANGED <<sketch, pc>>
    /\ server_up' = FALSE
    /\ server_thread' = IF phase' = "running" THEN "started" ELSE "off"
    /\ UNCHANGED <<cfgvars, is_dirty, continue_client, continue_committer, fsvars,
                   op, arg, merged_sketch, new_dirty, payload, ret, overlap,
                   ops, restarts, signals>>
    /\ UNCHANGED <<returned, meshvars>>


\* --------------------------------------------------------- steps' plumbing
\* The positions of committer_work between opening its file and returning.
InFlush == {"c_write", "c_fsync", "c_replace", "c_dirsync"}

\* History: thread t's flush changed a file; every other thread inside a
\* flush has been overlapped by it.
MarkOverlap(t) ==
    overlap' = [u \in Threads |->
                    IF u # t /\ pc[u] \in InFlush THEN TRUE ELSE overlap[u]]

Running(t) == phase = "running" /\ pc[t] # "off" /\ pc[t] # "dead"

\* Thread t's locals after its operation ended.
ClearLocals(t) ==
    /\ op' = [op EXCEPT ![t] = "none"]
    /\ arg' = [arg EXCEPT ![t] = {}]
    /\ merged_sketch' = [merged_sketch EXCEPT ![t] = {}]
    /\ new_dirty' = [new_dirty EXCEPT ![t] = FALSE]
    /\ payload' = [payload EXCEPT ![t] = <<>>]

\* Where thread t goes when its operation returns normally: the caller's loop
\* (ingest loop, worker pool, client and committer loops) waits for the next
\* one; stop_handler goes on to leave the process.
ReturnPc(t) ==
    IF op[t] = "stop" THEN "stop_restore"
    ELSE IF op[t] = "signal" THEN "sig_raise"
    ELSE "idle"

\* Where thread t goes when its operation raises: a server worker logs the
\* exception and takes the next request; the client and committer loops have
\* no handler, so their thread ends; in the main thread the exception leaves
\* the with block, which runs stop_handler (or, out of stop_handler, leaves
\* the process).
RaisePc(t) ==
    IF t \in Workers THEN "idle"
    ELSE IF t = Main THEN (IF op[t] = "stop" THEN "exit" ELSE "stop")
    ELSE "dead"

\* ----------------------------------------------------------- update_sketch
\* self.sketch.update(datum)
UpdateSketch(t, datum) ==
    /\ Running(t) /\ t = Main /\ pc[t] = "idle"
    /\ ops < MaxOps
    /\ ops' = ops + 1
    /\ sketch' = sketch_update(sketch, datum)
    /\ pc' = [pc EXCEPT ![t] = "u_dirty"]
    /\ op' = [op EXCEPT ![t] = "update"]
    /\ arg' = [arg EXCEPT ![t] = {datum}]
    /\ ret' = [ret EXCEPT ![t] = "none"]
    /\ UNCHANGED <<phase, cfgvars, is_dirty, continue_client, continue_committer,
                   server_up, server_thread, fsvars, merged_sketch, new_dirty, payload, histvars,
                   fails, restarts, signals>>
    /\ UNCHANGED meshvars

\* self.is_dirty = True; then the test of self.durability_level, which under
\* STRICT leads into self.committer_work()
UpdateDirty(t) ==
    /\ Running(t) /\ pc[t] = "u_dirty"
    /\ is_dirty' = TRUE
    /\ pc' = [pc EXCEPT ![t] = IF durability_level = STRICT THEN "c_begin" ELSE "u_ret"]
    /\ UNCHANGED <<phase, cfgvars, sketch, continue_client, continue_committer,
                   server_up, server_thread, fsvars, op, arg, merged_sketch, new_dirty, payload,
                   ret, histvars, budgets>>
    /\ UNCHANGED meshvars

\* update_sketch returns (not STRICT: no flush)
UpdateReturn(t) ==
    /\ Running(t) /\ pc[t] = "u_ret"
    /\ pc' = [pc EXCEPT ![t] = ReturnPc(t)]
    /\ returned' = returned \cup arg[t]
    /\ ClearLocals(t)
    /\ UNCHANGED <<phase, cfgvars, memvars, fsvars, ret, overlap, io, budgets>>
    /\ UNCHANGED meshvars

\* ---------------------------------------------------------- committer_work
\* committer_work returns (True after the clear, False from the guards).
CommitterReturn(t, value) ==
    /\ pc' = [pc EXCEPT ![t] = ReturnPc(t)]
    /\ ret' = [ret EXCEPT ![t] = value]
    /\ ClearLocals(t)
    /\ overlap' = [overlap EXCEPT ![t] = FALSE]
    /\ returned' = IF op[t] = "update" THEN returned \cup arg[t] ELSE returned

\* (A flush that writes in place whatever the atomicity flag says.)
WriteFile_InPlace(t, content) ==
    /\ target' = FileOf(content)
    /\ io' = io \cup {"write"}
    /\ UNCHANGED temp

\* The file the flush writes into: its temporary file, or the target itself.
WriteFile(t, content) ==
    IF atomicity
    THEN /\ temp' = [temp EXCEPT ![t] = FileOf(content)]
         /\ UNCHANGED <<target, io>>
    ELSE /\ target' = FileOf(content)
         /\ io' = io \cup {"write"}
         /\ UNCHANGED temp

\* if VOLATILE: return False; if sketch_file is None: return False;
\* if self.is_dirty: open the file, else: return False.
\* With atomicity, tempfile.NamedTemporaryFile(dir=..., delete=False) creates
\* an empty file of a fresh name; otherwise open(self.sketch_file, "wb")
\* truncates the target.
CommitterBegin(t) ==
    /\ Running(t) /\ pc[t] = "c_begin"
    /\ IF durability_level = VOLATILE \/ sketch_file = "None" \/ ~is_dirty
       THEN /\ CommitterReturn(t, "False")
            /\ UNCHANGED <<fsvars, io>>
       ELSE /\ WriteFile(t, <<>>)
            /\ MarkOverlap(t)
            /\ pc' = [pc EXCEPT ![t] = "c_write"]
            /\ UNCHANGED <<op, arg, merged_sketch, new_dirty, payload, ret, returned>>
    /\ UNCHANGED <<phase, cfgvars, memvars, budgets>>
    /\ UNCHANGED meshvars

\* file.write(self.sketch.serialize_compact()): the sketch is serialized and
\* handed to a buffered writer, which has passed on any prefix of it.
CommitterWrite(t) ==
    /\ Running(t) /\ pc[t] = "c_write"
    /\ payload' = [payload EXCEPT ![t] = serialize_compact(sketch)]
    /\ \E written \in Prefixes(payload'[t]) : WriteFile(t, written)
    /\ MarkOverlap(t)
    /\ pc' = [pc EXCEPT ![t] = "c_fsync"]
    /\ UNCHANGED <<phase, cfgvars, memvars, op, arg, merged_sketch, new_dirty,
                   ret, budgets>>
    /\ UNCHANGED <<returned, meshvars>>

\* file.flush(); os.fsync(file.fileno()); and the with block closes the file
CommitterFsync(t) ==
    /\ Running(t) /\ pc[t] = "c_fsync"
    /\ WriteFile(t, payload[t])
    /\ MarkOverlap(t)
    /\ pc' = [pc EXCEPT ![t] = IF atomicity THEN "c_replace" ELSE "c_dirsync"]
    /\ UNCHANGED <<phase, cfgvars, memvars, op, arg, merged_sketch, new_dirty,
                   payload, ret, budgets>>
    /\ UNCHANGED <<returned, meshvars>>

\* os.replace(temp_file_path, self.sketch_file)
CommitterReplace(t) ==
    /\ Running(t) /\ pc[t] = "c_replace"
    /\ target' = temp[t]
    /\ temp' = [temp EXCEPT ![t] = Absent]
    /\ io' = io \cup {"replace"}
    /\ MarkOverlap(t)
    /\ pc' = [pc EXCEPT ![t] = "c_dirsync"]
    /\ UNCHANGED <<phase, cfgvars, memvars, op, arg, merged_sketch, new_dirty,
                   payload, ret, budgets>>
    /\ UNCHANGED <<returned, meshvars>>

\* (A flush that returns True without clearing the flag.)
CommitterClear_KeepDirty(t) ==
    /\ Running(t) /\ pc[t] = "c_dirsync"
    /\ CommitterReturn(t, "True")
    /\ UNCHANGED <<phase, cfgvars, memvars, fsvars, io, budgets>>
    /\ UNCHANGED meshvars

\* (with atomicity: dir_fd = os.open(dirname, ...); os.fsync(dir_fd);
\* os.close(dir_fd), which change nothing another thread sees;)
\* self.is_dirty = False; return True
CommitterClear(t) ==
    /\ Running(t) /\ pc[t] = "c_dirsync"
    /\ is_dirty' = FALSE
    /\ CommitterReturn(t, "True")
    /\ UNCHANGED <<phase, cfgvars, sketch, continue_client, continue_committer,
                   server_up, server_thread, fsvars, io, budgets>>
    /\ UNCHANGED meshvars

\* A file call of the flush raises.  With atomicity the except clause removes
\* the temporary file if it was created (a FileNotFoundError of that removal
\* is logged) and re-raises; without it the with block closes the target as
\* it is.  is_dirty is not touched.
CommitterFail(t) ==
    /\ Running(t)
    /\ pc[t] \in IF atomicity THEN InFlush ELSE InFlush \ {"c_dirsync"}
    /\ fails < MaxFailures
    /\ fails' = fails + 1
    /\ temp' = [temp EXCEPT ![t] = Absent]
    /\ pc' = [pc EXCEPT ![t] = RaisePc(t)]
    /\ ret' = [ret EXCEPT ![t] = "raise"]
    /\ ClearLocals(t)
    /\ overlap' = [overlap EXCEPT ![t] = FALSE]
    /\ UNCHANGED <<phase, cfgvars, memvars, target, io, ops, restarts, signals>>
    /\ UNCHANGED <<returned, meshvars>>

\* committer_work_periodic: while self.continue_committer: time.sleep(...)
CommitterLoop(t) ==
    /\ Running(t) /\ t = Committer /\ pc[t] = "idle"
    /\ continue_committer
    /\ ops < MaxOps
    /\ ops' = ops + 1
    /\ pc' = [pc EXCEPT ![t] = "sleep"]
    /\ op' = [op EXCEPT ![t] = "committer"]
    /\ ret' = [ret EXCEPT ![t] = "none"]
    /\ UNCHANGED <<phase, cfgvars, memvars, fsvars, arg, merged_sketch, new_dirty,
                   payload, histvars, fails, restarts, signals>>
    /\ UNCHANGED meshvars

\* committer_work_periodic: ...; self.committer_work()
CommitterWake(t) ==
    /\ Running(t) /\ pc[t] = "sleep"
    /\ pc' = [pc EXCEPT ![t] = "c_begin"]
    /\ UNCHANGED <<phase, cfgvars, memvars, fsvars, op, arg, merged_sketch,
                   new_dirty, payload, ret, histvars, budgets>>
    /\ UNCHANGED meshvars

\* ------------------------------------------------------------------ imerge
\* The payloads a peer may send: any sketch's serialization, or bytes that
\* do not decode.
Payloads == {serialize_compact(s) : s \in Sketches} \cup {<<LOG_K>>}

\* imerge is entered with other: merged_sketch = self.merge(other)
ImergeEnter(t, name, other) ==
    /\ pc' = [pc EXCEPT ![t] = "m_dirty"]
    /\ op' = [op EXCEPT ![t] = name]
    /\ arg' = [arg EXCEPT ![t] = other]
    /\ merged_sketch' = [merged_sketch EXCEPT ![t] = hll_union(sketch, other)]
    /\ ret' = [ret EXCEPT ![t] = "none"]

\* (A push that empties the sketch when its payload does not decode.)
Push_ClobbersOnCorrupt(t, other_serialized) ==
    /\ Running(t) /\ t \in Workers /\ pc[t] = "idle"
    /\ server_up
    /\ ops < MaxOps
    /\ ops' = ops + 1
    /\ IF ~WellFormed(other_serialized)
       THEN /\ ret' = [ret EXCEPT ![t] = "raise"]
            /\ sketch' = {}
            /\ UNCHANGED <<pc, op, arg, merged_sketch>>
       ELSE /\ ImergeEnter(t, "push", deserialize(other_serialized))
            /\ UNCHANGED sketch
    /\ UNCHANGED <<phase, cfgvars, is_dirty, continue_client, continue_committer,
                   server_up, server_thread, fsvars, new_dirty, payload, histvars,
                   fails, restarts, signals>>
    /\ UNCHANGED meshvars

\* push (a server worker): other = deserialize(other_serialized); imerge(other).
\* Malformed bytes raise before imerge is entered; the server answers the
\* request with the error and the worker takes the next request.
Push(t, other_serialized) ==
    /\ Running(t) /\ t \in Workers /\ pc[t] = "idle"
    /\ server_up
    /\ ops < MaxOps
    /\ ops' = ops + 1
    /\ IF ~WellFormed(other_serialized)
       THEN /\ ret' = [ret EXCEPT ![t] = "raise"]
            /\ UNCHANGED <<pc, op, arg, merged_sketch>>
       ELSE ImergeEnter(t, "push", deserialize(other_serialized))
    /\ UNCHANGED <<phase, cfgvars, memvars, fsvars, new_dirty, payload, histvars,
                   fails, restarts, signals>>
    /\ UNCHANGED meshvars

\* pull (a server worker): return self.sketch.serialize_compact()
Pull(t) ==
    /\ Running(t) /\ t \in Workers /\ pc[t] = "idle"
    /\ server_up
    /\ ops < MaxOps
    /\ ops' = ops + 1
    /\ ret' = [ret EXCEPT ![t] = "none"]
    /\ UNCHANGED <<phase, cfgvars, memvars, fsvars, pc, op, arg, merged_sketch,
                   new_dirty, payload, histvars, fails, restarts, signals>>
    /\ UNCHANGED meshvars

\* client_work_periodic / try_anti_entropy / push_pull (the client thread):
\* serialize, client.push, client.pull, deserialize, imerge.  Bytes that do
\* not decode raise out of the loop and end the thread.
PushPull(t, other_serialized) ==
    /\ Running(t) /\ t = Client /\ pc[t] = "idle"
    /\ continue_client
    /\ ops < MaxOps
    /\ ops' = ops + 1
    /\ IF ~WellFormed(other_serialized)
       THEN /\ pc' = [pc EXCEPT ![t] = "dead"]
            /\ ret' = [ret EXCEPT ![t] = "raise"]
            /\ UNCHANGED <<op, arg, merged_sketch>>
       ELSE ImergeEnter(t, "push_pull", deserialize(other_serialized))
    /\ UNCHANGED <<phase, cfgvars, memvars, fsvars, new_dirty, payload, histvars,
                   fails, restarts, signals>>
    /\ UNCHANGED meshvars

\* try_anti_entropy: client.push or client.pull raises TTransportException,
\* which is caught; the exchange is skipped.
PushPullFail(t) ==
    /\ Running(t) /\ t = Client /\ pc[t] = "idle"
    /\ continue_client
    /\ ops < MaxOps /\ fails < MaxFailures
    /\ ops' = ops + 1
    /\ fails' = fails + 1
    /\ UNCHANGED <<phase, cfgvars, memvars, fsvars, thvars, histvars, restarts, signals>>
    /\ UNCHANGED meshvars

\* the right-hand side of
\*   self.is_dirty = self.is_dirty or (merged_sketch.serialize_compact()
\*                                     != self.sketch.serialize_compact())
ImergeDirty(t) ==
    /\ Running(t) /\ pc[t] = "m_dirty"
    /\ new_dirty' = [new_dirty EXCEPT ![t] =
          is_dirty \/ serialize_compact(merged_sketch[t]) # serialize_compact(sketch)]
    /\ pc' = [pc EXCEPT ![t] = "m_store"]
    /\ UNCHANGED <<phase, cfgvars, memvars, fsvars, op, arg, merged_sketch, payload,
                   ret, histvars, budgets>>
    /\ UNCHANGED meshvars

\* the store of that assignment: self.is_dirty = <value>
ImergeStore(t) ==
    /\ Running(t) /\ pc[t] = "m_store"
    /\ is_dirty' = new_dirty[t]
    /\ pc' = [pc EXCEPT ![t] = "m_replace"]
    /\ UNCHANGED <<phase, cfgvars, sketch, continue_client, continue_committer,
                   server_up, server_thread, fsvars, op, arg, merged_sketch, new_dirty, payload,
                   ret, histvars, budgets>>
    /\ UNCHANGED meshvars

\* self.sketch = merged_sketch; if STRICT: self.committer_work()
ImergeReplace(t) ==
    /\ Running(t) /\ pc[t] = "m_replace"
    /\ sketch' = merged_sketch[t]
    /\ IF durability_level = STRICT
       THEN /\ pc' = [pc EXCEPT ![t] = "c_begin"]
            /\ UNCHANGED <<op, arg, merged_sketch, new_dirty, payload>>
       ELSE /\ pc' = [pc EXCEPT ![t] = ReturnPc(t)]
            /\ ClearLocals(t)
    /\ UNCHANGED <<phase, cfgvars, is_dirty, continue_client, continue_committer,
                   server_up, server_thread, fsvars, ret, histvars, budgets>>
    /\ UNCHANGED meshvars

\* ---------------------------------------------------------- signal_handler
\* A signal start_handler installed signal_handler for is delivered while the
\* main thread is between two update_sketch calls; the handler runs in the
\* main thread: if DELAYED: self.committer_work()
SignalHandler(t) ==
    /\ Running(t) /\ t = Main /\ pc[t] = "idle"
    /\ signals < MaxSignals
    /\ signals' = signals + 1
    /\ op' = [op EXCEPT ![t] = "signal"]
    /\ pc' = [pc EXCEPT ![t] = IF durability_level = DELAYED THEN "c_begin" ELSE "sig_raise"]
    /\ ret' = [ret EXCEPT ![t] = "none"]
    /\ UNCHANGED <<phase, cfgvars, memvars, fsvars, arg, merged_sketch, new_dirty,
                   payload, histvars, ops, fails, restarts>>
    /\ UNCHANGED meshvars

\* signal.signal(signum, prev_handler); os.kill(os.getpid(), signum): the
\* previous disposition runs.  It terminates the process (SIG_DFL of
\* SIGTERM, SIGQUIT, ...), or raises KeyboardInterrupt out of the handler
\* into the with block, which runs stop_handler (SIGINT), or lets the process
\* go on (SIGTSTP once continued), and then signal.signal(signum,
\* self.signal_handler) installs the handler again.
SignalRaise(t, disposition) ==
    /\ Running(t) /\ pc[t] = "sig_raise"
    /\ IF disposition = "terminate"
       THEN /\ phase' = "killed"
            /\ pc' = [u \in Threads |-> "dead"]
            /\ op' = NoOp /\ arg' = NoSketch /\ merged_sketch' = NoSketch
            /\ new_dirty' = NoFlag /\ payload' = NoBytes /\ ret' = NoOp
            /\ overlap' = NoFlag
            /\ sketch' = {} /\ is_dirty' = FALSE
            /\ continue_client' = FALSE /\ continue_committer' = FALSE
            /\ server_up' = FALSE /\ server_thread' = "off"
       ELSE /\ pc' = [pc EXCEPT ![t] = IF disposition = "interrupt" THEN "stop" ELSE "idle"]
            /\ op' = [op EXCEPT ![t] = "none"]
            /\ UNCHANGED <<phase, memvars, arg, merged_sketch, new_dirty, payload,
                           ret, overlap>>
    /\ UNCHANGED <<cfgvars, fsvars, io, returned, budgets>>
    /\ UNCHANGED meshvars

\* ------------------------------------------------------ stop, exit and kill
\* server_work, the server thread: host, port = address raises TypeError when
\* server_address is None, and the thread ends with self.server still None;
\* otherwise self.server = TNonblockingServer(...); self.server.serve().
ServerWork ==
    /\ phase = "running" /\ server_thread = "started"
    /\ IF server_address = "None"
       THEN /\ server_thread' = "raised"
            /\ UNCHANGED server_up
       ELSE /\ server_thread' = "serving"
            /\ server_up' = TRUE
    /\ UNCHANGED <<phase, cfgvars, sketch, is_dirty, continue_client, continue_committer,
                   fsvars, thvars, histvars, budgets>>
    /\ UNCHANGED meshvars

\* stop_handler is entered, when the with block is left, normally or by an
\* exception of update_sketch: its first call is stop_server.
StopHandler(t) ==
    /\ Running(t) /\ t = Main /\ pc[t] \in {"idle", "stop"}
    /\ op' = [op EXCEPT ![t] = "stop"]
    /\ pc' = [pc EXCEPT ![t] = "stop_server"]
    /\ ret' = [ret EXCEPT ![t] = "none"]
    /\ UNCHANGED <<phase, cfgvars, memvars, fsvars, arg, merged_sketch,
                   new_dirty, payload, histvars, budgets>>
    /\ UNCHANGED meshvars

\* stop_server: while self.server is None: time.sleep(0.01) -- the loop is
\* left only once the server thread has assigned self.server; then
\* self.server.stop().
StopServer(t) ==
    /\ Running(t) /\ pc[t] = "stop_server"
    /\ server_thread \in {"serving", "stopped"}
    /\ server_up' = FALSE
    /\ server_thread' = "stopped"
    /\ pc' = [pc EXCEPT ![t] = "stop_client"]
    /\ UNCHANGED <<phase, cfgvars, sketch, is_dirty, continue_client, continue_committer,
                   fsvars, op, arg, merged_sketch, new_dirty, payload, ret,
                   histvars, budgets>>
    /\ UNCHANGED meshvars

\* stop_client: self.continue_client = False
StopClient(t) ==
    /\ Running(t) /\ pc[t] = "stop_client"
    /\ continue_client' = FALSE
    /\ pc' = [pc EXCEPT ![t] = "stop_committer"]
    /\ UNCHANGED <<phase, cfgvars, sketch, is_dirty, continue_committer, server_up,
                   server_thread, fsvars, op, arg, merged_sketch, new_dirty, payload,
                   ret, histvars, budgets>>
    /\ UNCHANGED meshvars

\* stop_committer: self.continue_committer = False; then, under DELAYED, the
\* final self.committer_work().
StopCommitter(t) ==
    /\ Running(t) /\ pc[t] = "stop_committer"
    /\ continue_committer' = FALSE
    /\ pc' = [pc EXCEPT ![t] = IF durability_level = DELAYED
                                THEN "c_begin" ELSE "stop_restore"]
    /\ UNCHANGED <<phase, cfgvars, sketch, is_dirty, continue_client, server_up,
                   server_thread, fsvars, op, arg, merged_sketch, new_dirty, payload,
                   ret, histvars, budgets>>
    /\ UNCHANGED meshvars

\* stop_handler's last loop: signal.signal(sig, prev_handler) for every
\* signal whose handler is still signal_handler; stop_handler returns.
StopRestore(t) ==
    /\ Running(t) /\ pc[t] = "stop_restore"
    /\ pc' = [pc EXCEPT ![t] = "exit"]
    /\ ClearLocals(t)
    /\ UNCHANGED <<phase, cfgvars, memvars, fsvars, ret, histvars, budgets>>
    /\ UNCHANGED meshvars

Dead == [t \in Threads |-> "dead"]

\* The main thread leaves the process; the other threads are daemons.
ProcessExit ==
    /\ phase = "running" /\ pc[Main] = "exit"
    /\ phase' = "exited"
    /\ pc' = Dead
    /\ op' = NoOp /\ arg' = NoSketch /\ merged_sketch' = NoSketch
    /\ new_dirty' = NoFlag /\ payload' = NoBytes /\ ret' = NoOp
    /\ overlap' = NoFlag
    /\ UNCHANGED <<cfgvars, memvars, fsvars, io, budgets>>
    /\ UNCHANGED <<returned, meshvars>>

\* The process is killed: its memory is gone, the files stay as they are.
Kill ==
    /\ phase = "running"
    /\ phase' = "killed"
    /\ pc' = Dead
    /\ op' = NoOp /\ arg' = NoSketch /\ merged_sketch' = NoSketch
    /\ new_dirty' = NoFlag /\ payload' = NoBytes /\ ret' = NoOp
    /\ overlap' = NoFlag
    /\ sketch' = {} /\ is_dirty' = FALSE
    /\ continue_client' = FALSE /\ continue_committer' = FALSE
    /\ server_up' = FALSE /\ server_thread' = "off"
    /\ UNCHANGED <<cfgvars, fsvars, io, budgets>>
    /\ UNCHANGED <<returned, meshvars>>

\* The node is constructed again with the same configuration and followed
\* through its start; the temporary files a killed flush left behind are
\* never opened again.
Restart ==
    /\ phase = "killed"
    /\ restarts < MaxRestarts
    /\ restarts' = restarts + 1
    /\ phase' = "constructed"
    /\ pc' = [t \in Threads |-> "off"]
    /\ temp' = [t \in Threads |-> Absent]
    /\ continue_client' = TRUE
    /\ continue_committer' = (durability_level = DELAYED)
    /\ ops' = MaxOps
    /\ signals' = MaxSignals
    /\ UNCHANGED <<cfgvars, sketch, is_dirty, server_up, server_thread, target, op, arg,
                   merged_sketch, new_dirty, payload, ret, histvars, fails>>
    /\ UNCHANGED meshvars

\* ------------------------------------------------------------ specification
Next ==
    \/ Construct
    \/ StartHandler
    \/ \E datum \in Items : UpdateSketch(Main, datum)
    \/ \E b \in Payloads : \E t \in Workers : Push(t, b)
    \/ \E t \in Workers : Pull(t)
    \/ \E b \in Payloads : PushPull(Client, b)
    \/ PushPullFail(Client)
    \/ CommitterLoop(Committer)
    \/ CommitterWake(Committer)
    \/ SignalHandler(Main)
    \/ \E disposition \in Dispositions : SignalRaise(Main, disposition)
    \/ ServerWork
    \/ StopHandler(Main)
    \/ StopServer(Main)
    \/ StopClient(Main)
    \/ StopCommitter(Main)
    \/ StopRestore(Main)
    \/ ProcessExit
    \/ Kill
    \/ Restart
    \/ \E t \in Threads :
          \/ UpdateDirty(t)
          \/ UpdateReturn(t)
          \/ ImergeDirty(t)
          \/ ImergeStore(t)
          \/ ImergeReplace(t)
          \/ CommitterBegin(t)
          \/ CommitterWrite(t)
          \/ CommitterFsync(t)
          \/ CommitterReplace(t)
          \/ CommitterClear(t)
          \/ CommitterFail(t)

Spec == Init /\ [][Next]_vars


\* ------------------------------------------------------------------ the mesh
\* NumNodes nodes gossiping, each running with VOLATILE durability and no
\* sketch file, each having ingested its own input before gossip starts and
\* ingesting nothing afterwards.  Only the client threads and the server
\* workers run.  imerge is taken in two steps, the union it reads and the
\* stores that follow; the two stores (is_dirty, sketch) are taken together.
MeshInit ==
    /\ phase = "mesh"
    /\ durability_level = VOLATILE
    /\ atomicity_arg = "None"
    /\ atomicity = FALSE
    /\ sketch_file = "None"
    /\ path_state = "none"
    /\ server_address = "addr"
    /\ sketch = {}
    /\ is_dirty = FALSE
    /\ continue_client = TRUE
    /\ continue_committer = FALSE
    /\ server_up = TRUE
    /\ server_thread = "serving"
    /\ target = Absent
    /\ temp = [t \in Threads |-> Absent]
    /\ pc = [t \in Threads |-> "off"]
    /\ op = NoOp
    /\ arg = NoSketch
    /\ merged_sketch = NoSketch
    /\ new_dirty = NoFlag
    /\ payload = NoBytes
    /\ ret = NoOp
    /\ overlap = NoFlag
    /\ io = {}
    /\ returned = {}
    /\ ops = 0
    /\ fails = 0
    /\ restarts = 0
    /\ signals = 0
    /\ mesh_sketch = [n \in Nodes |-> Input(n)]
    /\ mesh_is_dirty = [n \in Nodes |-> TRUE]
    /\ mesh_client = [n \in Nodes |-> ClientOff]
    /\ mesh_worker = [n \in Nodes |-> WorkerOff]
    /\ mesh_fails = 0
    /\ helper = HelperOff
    /\ sigs = SigsOff

\* addresses = random.sample(client_addresses, min(len(client_addresses),
\*                                                 ANTI_ENTROPY_MAX_CLIENTS))
Samples(n) ==
    LET k == IF Cardinality(Peers(n)) < ANTI_ENTROPY_MAX_CLIENTS
             THEN Cardinality(Peers(n)) ELSE ANTI_ENTROPY_MAX_CLIENTS
    IN {S \in SUBSET Peers(n) : Cardinality(S) = k}

\* client_work_periodic wakes up: while self.continue_client: client_work(...)
MeshClientWork(n) ==
    /\ phase = "mesh" /\ continue_client
    /\ mesh_client[n].pc = "sleep"
    /\ Peers(n) # {}
    /\ \E S \in Samples(n) :
          mesh_client' = [mesh_client EXCEPT ![n].pc = "visit", ![n].todo = S]
    /\ UNCHANGED <<nodevars, helper, sigs, mesh_sketch, mesh_is_dirty, mesh_worker, mesh_fails>>

\* for host, port in addresses: try_anti_entropy -> anti_entropy -> push_pull:
\* self_serialized = self.sketch.serialize_compact(); client.push(self_serialized)
\* (the request reaches a worker of the peer's server); after the last
\* address, time.sleep(ANTI_ENTROPY_INTERVAL).
MeshPushPull(n) ==
    /\ phase = "mesh"
    /\ mesh_client[n].pc = "visit"
    /\ IF mesh_client[n].todo = {}
       THEN /\ mesh_client' = [mesh_client EXCEPT ![n] = ClientOff]
            /\ UNCHANGED mesh_worker
       ELSE \E p \in mesh_client[n].todo :
               /\ mesh_client' = [mesh_client EXCEPT
                                     ![n].pc = "pushed",
                                     ![n].todo = mesh_client[n].todo \ {p},
                                     ![n].peer = p]
               /\ mesh_worker' = [mesh_worker EXCEPT
                                     ![n].pc = "push",
                                     ![n].payload = serialize_compact(mesh_sketch[n])]
    /\ UNCHANGED <<nodevars, helper, sigs, mesh_sketch, mesh_is_dirty, mesh_fails>>

\* (A transport failure that ends the client's round.)
MeshTransportFail_EndsRound(n) ==
    /\ phase = "mesh"
    /\ mesh_fails < MaxNetFailures
    /\ mesh_client[n].pc = "visit" /\ mesh_client[n].todo # {}
    /\ mesh_client' = [mesh_client EXCEPT ![n] = ClientOff]
    /\ mesh_fails' = mesh_fails + 1
    /\ UNCHANGED <<nodevars, helper, sigs, mesh_sketch, mesh_is_dirty, mesh_worker>>

\* client.push or client.pull raises TTransportException (ThriftHelper closes
\* the connection and re-raises); try_anti_entropy: except
\* TTransportException: return False, and client_work's loop goes on with
\* the next address.  The push fails before a request reaches the peer, or
\* the peer has served the push and its reply, or the pull, fails.
MeshTransportFail(n) ==
    /\ phase = "mesh"
    /\ mesh_fails < MaxNetFailures
    /\ IF mesh_client[n].pc = "visit"
       THEN /\ \E p \in mesh_client[n].todo :
                  mesh_client' = [mesh_client EXCEPT
                                     ![n].todo = mesh_client[n].todo \ {p}]
            /\ UNCHANGED mesh_worker
       ELSE /\ mesh_client[n].pc = "pushed"
            /\ mesh_worker[n].pc = "returned"
            /\ mesh_client' = [mesh_client EXCEPT ![n].pc = "visit", ![n].peer = 0]
            /\ mesh_worker' = [mesh_worker EXCEPT ![n] = WorkerOff]
    /\ mesh_fails' = mesh_fails + 1
    /\ UNCHANGED <<nodevars, helper, sigs, mesh_sketch, mesh_is_dirty>>

\* At the peer, a server worker runs push: other_deserialized =
\* hll_sketch.deserialize(other_serialized); imerge: merged_sketch =
\* self.merge(other)
MeshPush(n) ==
    /\ phase = "mesh"
    /\ mesh_worker[n].pc = "push"
    /\ mesh_worker' = [mesh_worker EXCEPT
                          ![n].pc = "m_replace",
                          ![n].merged_sketch =
                              hll_union(mesh_sketch[mesh_client[n].peer],
                                        deserialize(mesh_worker[n].payload))]
    /\ UNCHANGED <<nodevars, helper, sigs, mesh_sketch, mesh_is_dirty, mesh_client, mesh_fails>>

\* imerge's stores by thread of node p holding merged:
\* self.is_dirty = self.is_dirty or (merged_sketch.serialize_compact() !=
\* self.sketch.serialize_compact()); self.sketch = merged_sketch
MeshImergeStore(p, merged) ==
    /\ mesh_is_dirty' = [mesh_is_dirty EXCEPT ![p] =
                            mesh_is_dirty[p]
                            \/ serialize_compact(merged) # serialize_compact(mesh_sketch[p])]
    /\ mesh_sketch' = [mesh_sketch EXCEPT ![p] = merged]

\* The worker finishes imerge and push returns to the client.
MeshPushReplace(n) ==
    /\ phase = "mesh"
    /\ mesh_worker[n].pc = "m_replace"
    /\ MeshImergeStore(mesh_client[n].peer, mesh_worker[n].merged_sketch)
    /\ mesh_worker' = [mesh_worker EXCEPT ![n].pc = "returned"]
    /\ UNCHANGED <<nodevars, helper, sigs, mesh_client, mesh_fails>>

\* push_pull goes on: other_serialized = client.pull() (the peer's pull
\* returns self.sketch.serialize_compact()); other_deserialized =
\* hll_sketch.deserialize(other_serialized); imerge: merged_sketch =
\* self.merge(other)
MeshPull(n) ==
    /\ phase = "mesh"
    /\ mesh_client[n].pc = "pushed"
    /\ mesh_worker[n].pc = "returned"
    /\ LET other_serialized == serialize_compact(mesh_sketch[mesh_client[n].peer])
       IN mesh_client' = [mesh_client EXCEPT
                             ![n].pc = "m_replace",
                             ![n].merged_sketch =
                                 hll_union(mesh_sketch[n], deserialize(other_serialized))]
    /\ mesh_worker' = [mesh_worker EXCEPT ![n] = WorkerOff]
    /\ UNCHANGED <<nodevars, helper, sigs, mesh_sketch, mesh_is_dirty, mesh_fails>>

\* The client thread finishes imerge and goes on to the next address.
MeshImergeReplace(n) ==
    /\ phase = "mesh"
    /\ mesh_client[n].pc = "m_replace"
    /\ MeshImergeStore(n, mesh_client[n].merged_sketch)
    /\ mesh_client' = [mesh_client EXCEPT ![n].pc = "visit", ![n].peer = 0,
                                          ![n].merged_sketch = {}]
    /\ UNCHANGED <<nodevars, helper, sigs, mesh_worker, mesh_fails>>

MeshNext ==
    \E n \in Nodes :
       \/ MeshClientWork(n)
       \/ MeshPushPull(n)
       \/ MeshTransportFail(n)
       \/ MeshPush(n)
       \/ MeshPushReplace(n)
       \/ MeshPull(n)
       \/ MeshImergeReplace(n)

\* Every thread that can take a step eventually takes it: client rounds
\* recur (the loop sleeps ANTI_ENTROPY_INTERVAL and goes on), server workers
\* serve what they received.  Transport failures are not forced and are
\* bounded, so every exchange eventually succeeds.
MeshFairness ==
    \A n \in Nodes :
       /\ WF_vars(MeshClientWork(n))
       /\ WF_vars(MeshPushPull(n))
       /\ WF_vars(MeshPush(n))
       /\ WF_vars(MeshPushReplace(n))
       /\ WF_vars(MeshPull(n))
       /\ WF_vars(MeshImergeReplace(n))

SpecMesh == MeshInit /\ [][MeshNext]_vars /\ MeshFairness


\* ------------------------------------------------------------ ThriftHelper
\* One ThriftHelper over one cached connection, used by one caller: the
\* wrapper __getattr__ returns is called for push or pull, the call goes
\* through _invoke, and the peer or the network may fail any attempt.
HelperInit ==
    /\ phase = "helper"
    /\ durability_level = VOLATILE
    /\ atomicity_arg = "None"
    /\ atomicity = FALSE
    /\ sketch_file = "None"
    /\ path_state = "none"
    /\ server_address = "addr"
    /\ sketch = {}
    /\ is_dirty = FALSE
    /\ continue_client = TRUE
    /\ continue_committer = FALSE
    /\ server_up = FALSE
    /\ server_thread = "off"
    /\ target = Absent
    /\ temp = [t \in Threads |-> Absent]
    /\ pc = [t \in Threads |-> "off"]
    /\ op = NoOp
    /\ arg = NoSketch
    /\ merged_sketch = NoSketch
    /\ new_dirty = NoFlag
    /\ payload = NoBytes
    /\ ret = NoOp
    /\ overlap = NoFlag
    /\ io = {}
    /\ returned = {}
    /\ ops = 0
    /\ fails = 0
    /\ restarts = 0
    /\ signals = 0
    /\ mesh_sketch = [n \in Nodes |-> {}]
    /\ mesh_is_dirty = [n \in Nodes |-> FALSE]
    /\ mesh_client = [n \in Nodes |-> ClientOff]
    /\ mesh_worker = [n \in Nodes |-> WorkerOff]
    /\ mesh_fails = 0
    /\ \E r \in BOOLEAN : helper = [HelperOff EXCEPT !.reliable = r, !.pc = "idle"]
    /\ sigs = SigsOff

HelperUnchanged == UNCHANGED <<nodevars, mesh_sketch, mesh_is_dirty, mesh_client,
                               mesh_worker, mesh_fails, sigs>>

\* __getattr__'s wrapper is called: _invoke_reliable_broadcast if
\* self._reliable else _invoke_best_effort_broadcast; both start with _invoke.
Wrapper(attr) ==
    /\ phase = "helper" /\ helper.pc = "idle"
    /\ helper.calls < MaxCalls
    /\ helper' = [helper EXCEPT !.pc = "invoke", !.method = attr, !.attempts = 0,
                                !.result = "none", !.calls = helper.calls + 1]
    /\ HelperUnchanged

\* (A handler that leaves the connection as it is.)
InvokeExcept_KeepsOpen(h) ==
    IF h.reliable
    THEN [h EXCEPT !.pc = "sleep", !.fails = h.fails + 1]
    ELSE [h EXCEPT !.pc = "idle", !.method = "none",
                   !.result = "raised", !.fails = h.fails + 1]

\* An attempt raised TTransportException.  _invoke: except
\* TTransportException: self._buffered_transport.close(); raise.  The
\* best-effort broadcast logs and re-raises to the caller; the reliable one
\* logs and goes to time.sleep(1).
InvokeExcept(h) ==
    IF h.reliable
    THEN [h EXCEPT !.is_open = FALSE, !.pc = "sleep", !.fails = h.fails + 1]
    ELSE [h EXCEPT !.is_open = FALSE, !.pc = "idle", !.method = "none",
                   !.result = "raised", !.fails = h.fails + 1]

\* _invoke: if not self._buffered_transport.isOpen():
\* self._buffered_transport.open() -- which connects, or raises
\* TTransportException.
InvokeOpen ==
    /\ phase = "helper" /\ helper.pc = "invoke"
    /\ LET h == [helper EXCEPT !.attempts = helper.attempts + 1]
       IN \/ helper' = [h EXCEPT !.is_open = TRUE, !.pc = "call"]
          \/ /\ ~helper.is_open
             /\ helper.fails < MaxHelperFailures
             /\ helper' = InvokeExcept(h)
    /\ HelperUnchanged

\* The outcomes of the client's method: its result, a TTransportException
\* (the send or the receive failed), or another exception (the peer answered
\* with an error).
Outcomes == {"returned", "transport", "other"}

\* _invoke: method = getattr(self._client, method_name);
\* return method(*args, **kwargs).  Exceptions other than TTransportException
\* pass through every handler.
InvokeMethod(outcome) ==
    /\ phase = "helper" /\ helper.pc = "call"
    /\ IF outcome = "transport"
       THEN /\ helper.fails < MaxHelperFailures
            /\ helper' = InvokeExcept(helper)
       ELSE helper' = [helper EXCEPT !.pc = "idle", !.method = "none",
                                    !.result = IF outcome = "returned"
                                               THEN "returned" ELSE "raised_other"]
    /\ HelperUnchanged

\* _invoke_reliable_broadcast: time.sleep(1) ends and the loop calls _invoke
\* again.
ReliableRetry ==
    /\ phase = "helper" /\ helper.pc = "sleep"
    /\ helper' = [helper EXCEPT !.pc = "invoke"]
    /\ HelperUnchanged

HelperNext ==
    \/ \E attr \in {"push", "pull"} : Wrapper(attr)
    \/ InvokeOpen
    \/ \E outcome \in Outcomes : InvokeMethod(outcome)
    \/ ReliableRetry

SpecHelper == HelperInit /\ [][HelperNext]_vars


\* ------------------------------------------------------------------ signals
\* The signal dispositions over the life of a node: start_handler (once or
\* again), deliveries of the signals, signal_handler's delegation, and
\* stop_handler's restoring.  The flush signal_handler and stop_handler make
\* is followed in Spec.
SignalsInit ==
    /\ phase = "signals"
    /\ durability_level = VOLATILE
    /\ atomicity_arg = "None"
    /\ atomicity = FALSE
    /\ sketch_file = "None"
    /\ path_state = "none"
    /\ server_address = "addr"
    /\ sketch = {}
    /\ is_dirty = FALSE
    /\ continue_client = TRUE
    /\ continue_committer = FALSE
    /\ server_up = FALSE
    /\ server_thread = "off"
    /\ target = Absent
    /\ temp = [t \in Threads |-> Absent]
    /\ pc = [t \in Threads |-> "off"]
    /\ op = NoOp
    /\ arg = NoSketch
    /\ merged_sketch = NoSketch
    /\ new_dirty = NoFlag
    /\ payload = NoBytes
    /\ ret = NoOp
    /\ overlap = NoFlag
    /\ io = {}
    /\ returned = {}
    /\ ops = 0
    /\ fails = 0
    /\ restarts = 0
    /\ signals = 0
    /\ mesh_sketch = [n \in Nodes |-> {}]
    /\ mesh_is_dirty = [n \in Nodes |-> FALSE]
    /\ mesh_client = [n \in Nodes |-> ClientOff]
    /\ mesh_worker = [n \in Nodes |-> WorkerOff]
    /\ mesh_fails = 0
    /\ helper = HelperOff
    /\ \E o \in [SignalKinds -> Dispositions] :
          sigs = [SigsOff EXCEPT !.pc = "new", !.orig = o]

SignalsUnchanged == UNCHANGED <<nodevars, mesh_sketch, mesh_is_dirty, mesh_client,
                                mesh_worker, mesh_fails, helper>>

\* start_handler: for sig in (...): self.prev_signal_handlers[sig] =
\* signal.signal(sig, self.signal_handler) -- signal.signal returns the
\* handler that was installed; then each thread is started if its
\* self.*_thread is None, and a warning is logged otherwise.
SigStartHandler ==
    /\ phase = "signals" /\ sigs.pc \in {"new", "running"}
    /\ sigs.starts < MaxStarts
    /\ sigs' = [sigs EXCEPT !.pc = "running",
                            !.prev_signal_handlers = sigs.handler,
                            !.handler = [s \in SignalKinds |-> "node"],
                            !.threads = TRUE,
                            !.starts = sigs.starts + 1]
    /\ SignalsUnchanged

\* The original disposition of signal s runs, out of position back.
RunOriginal(g, s, back) ==
    LET h == [g EXCEPT !.delegated[s] = g.delegated[s] + 1, !.cur = 0, !.depth = 0,
                       !.back = "none"]
    IN IF g.orig[s] = "terminate" THEN [h EXCEPT !.pc = "terminated"]
       ELSE IF g.orig[s] = "interrupt" /\ back = "running" THEN [h EXCEPT !.pc = "stop"]
       ELSE [h EXCEPT !.pc = back]

\* Signal s is delivered to the process: the installed handler runs in the
\* main thread, signal_handler if it is the node's.
SigDeliver(s) ==
    /\ phase = "signals" /\ sigs.pc \in {"running", "stopped"}
    /\ sigs.delivered[s] < MaxDeliveries
    /\ LET g == [sigs EXCEPT !.delivered[s] = sigs.delivered[s] + 1]
       IN sigs' = IF sigs.handler[s] = "node"
                  THEN [g EXCEPT !.pc = "handler", !.back = sigs.pc, !.cur = s, !.depth = 1]
                  ELSE RunOriginal(g, s, sigs.pc)
    /\ SignalsUnchanged

\* signal_handler, after its flush: if signum in self.prev_signal_handlers
\* and signal.getsignal(signum) == self.signal_handler: signal.signal(signum,
\* prev_handler); os.kill(os.getpid(), signum); signal.signal(signum,
\* self.signal_handler).  os.kill runs what has just been installed: the
\* original disposition (a KeyboardInterrupt it raises leaves the handler
\* before the last line), or signal_handler itself, once more.
SigSignalHandler ==
    /\ phase = "signals" /\ sigs.pc = "handler"
    /\ LET s == sigs.cur
           prev_handler == sigs.prev_signal_handlers[s]
       IN IF prev_handler = "absent" \/ sigs.handler[s] # "node"
          THEN sigs' = [sigs EXCEPT !.pc = sigs.back, !.back = "none", !.cur = 0, !.depth = 0]
          ELSE IF prev_handler = "node"
          THEN /\ sigs.depth < MaxDepth
               /\ sigs' = [sigs EXCEPT !.depth = sigs.depth + 1]
          ELSE LET g == RunOriginal([sigs EXCEPT !.handler[s] = "original"], s, sigs.back)
               IN sigs' = IF sigs.orig[s] = "resume"
                          THEN [g EXCEPT !.handler[s] = "node"]
                          ELSE g
    /\ SignalsUnchanged

\* stop_handler's last loop: for sig, prev_handler in
\* self.prev_signal_handlers.items(): if signal.getsignal(sig) ==
\* self.signal_handler: signal.signal(sig, prev_handler)
SigStopHandler ==
    /\ phase = "signals" /\ sigs.pc \in {"running", "stop"}
    /\ sigs' = [sigs EXCEPT
                   !.pc = "stopped",
                   !.handler = [s \in SignalKinds |->
                                   IF sigs.prev_signal_handlers[s] # "absent"
                                      /\ sigs.handler[s] = "node"
                                   THEN sigs.prev_signal_handlers[s]
                                   ELSE sigs.handler[s]]]
    /\ SignalsUnchanged

SignalsNext ==
    \/ SigStartHandler
    \/ \E s \in SignalKinds : SigDeliver(s)
    \/ SigSignalHandler
    \/ SigStopHandler

SpecSignals == SignalsInit /\ [][SignalsNext]_vars


\* ------------------------------------------------------------------ claims
\* Thread t's committer_work returns True in this step.
FlushReturnsTrue(t) ==
    /\ pc[t] = "c_dirsync" /\ pc'[t] # "c_dirsync"
    /\ phase' = "running" /\ fails' = fails

\* Thread t's committer_work returns False in this step.
FlushReturnsFalse(t) ==
    /\ pc[t] = "c_begin" /\ pc'[t] \notin {"c_begin", "c_write"}
    /\ phase' = "running"

\* C1: if the sketch was mutated between the moment a flush serialized it and
\* the moment that flush clears the dirty flag, the dirty flag is still true
\* when the flush has finished.
\* (The mutation is complete: no update_sketch is between folding its datum
\* in and setting the flag itself.)
C1_StaleFlushKeepsDirty ==
    [][\A t \in Threads :
          (/\ FlushReturnsTrue(t)
           /\ payload[t] # serialize_compact(sketch)
           /\ \A u \in Threads : pc[u] # "u_dirty") => is_dirty']_vars

\* C2: the dirty flag goes from true to false only in the last step of a
\* flush whose file calls all succeeded; no ingest, merge, load or pull step
\* clears it.
C2_OnlyFlushClearsDirty ==
    [][(is_dirty /\ ~is_dirty' /\ phase' = "running")
          => \E t \in Threads : FlushReturnsTrue(t)]_vars

\* C3: with atomicity on, every step of the node, and a kill of the process
\* after any step, leaves at the sketch-file path either the content it held
\* before or the complete serialization the flush wrote: the only step that
\* changes the target is a flush's rename, and what it puts there is the
\* whole payload, which decodes.
C3_AtomicReplace ==
    [][atomicity =>
          \/ target' = target
          \/ \E t \in Threads :
                /\ pc[t] = "c_replace"
                /\ target' = FileOf(payload[t])
                /\ WellFormed(target'.bytes)]_vars

\* C3's case: the process was killed in the middle of an atomic flush (its
\* temporary file holds a truncated payload) and the target still holds a
\* complete serialization written earlier.
C3_Witness ==
    /\ phase = "killed" /\ atomicity
    /\ target.exists /\ WellFormed(target.bytes)
    /\ \E t \in Threads : temp[t].exists /\ ~WellFormed(temp[t].bytes)

\* Thread t's update_sketch or imerge returns normally in this step.
MutationReturns(t) ==
    /\ op[t] \in {"update", "push", "push_pull"}
    /\ pc[t] \in {"u_ret", "m_replace", "c_begin", "c_dirsync"}
    /\ pc'[t] = "idle"
    /\ phase' = "running" /\ fails' = fails

\* File f holds a serialization that includes sketch s (an absent file
\* counting as the empty sketch).
Holds(f, s) ==
    IF f.exists
    THEN WellFormed(f.bytes) /\ s \subseteq deserialize(f.bytes)
    ELSE s = {}

\* C4: under STRICT durability, when update_sketch or imerge returns
\* normally, the sketch file holds a serialization that includes the datum
\* (the merged sketch) of that call.
C4_StrictCommitted ==
    [][\A t \in Threads :
          (durability_level = STRICT /\ MutationReturns(t))
             => Holds(target', arg[t])]_vars

\* C5: sketch operations are serialized: while an imerge is between reading
\* the sketch for its union and replacing the sketch with that union, no
\* other operation changes the sketch, so the union it is about to store is
\* the union of the current sketch and other.
C5_ImergeSerialized ==
    \A t \in Threads :
        pc[t] \in {"m_dirty", "m_store", "m_replace"}
            => merged_sketch[t] = hll_union(sketch, arg[t])

\* C7: a node running with VOLATILE durability never reads or writes the
\* configured sketch-file path.
C7_NoFileUnderVolatile ==
    (durability_level = VOLATILE /\ phase \notin {"new", "rejected"})
        => io \cap {"read", "write", "replace"} = {}

\* C8: construction with a usable path is rejected exactly when (VOLATILE and
\* atomicity on) or (VOLATILE and a sketch file given) or (not VOLATILE and no
\* sketch file given), and a rejection touches no file and starts nothing.
C8_ConfigRejectedExactly ==
    [][(phase = "new" /\ phase' # "new" /\ path_state \in {"ok", "none"})
          => /\ (phase' = "rejected") <=>
                   \/ durability_level = VOLATILE /\ atomicity_arg = "True"
                   \/ durability_level = VOLATILE /\ sketch_file # "None"
                   \/ durability_level # VOLATILE /\ sketch_file = "None"
             /\ (phase' = "rejected") =>
                   /\ io' = {} /\ fsvars' = fsvars
                   /\ \A t \in Threads : pc'[t] = "off"]_vars

\* C9: with durability not VOLATILE, an explicitly false atomicity argument
\* selects the non-atomic protocol and a true or unspecified one the
\* temp-file protocol; a flush writes into the target itself under the
\* former and into its temporary file (renamed over the target) under the
\* latter.
C9_AtomicitySelectsProtocol ==
    [][/\ (phase = "new" /\ phase' = "constructed" /\ durability_level # VOLATILE)
            => (atomicity' = (atomicity_arg # "False"))
       /\ \A t \in Threads :
            (pc[t] = "c_write" /\ pc'[t] = "c_fsync")
               => IF atomicity
                  THEN target' = target /\ temp'[t].exists
                  ELSE target'.exists /\ temp' = temp]_vars


\* C10 as stated: committer_work returns False and touches no file when
\* durability is VOLATILE or the flag is false; a flush whose file calls all
\* succeed, with the sketch not mutated since it was serialized, returns True
\* and leaves the sketch file holding exactly the serialization of the
\* current sketch and the flag false.
C10_FlushOnceAsStated ==
    [][\A t \in Threads :
          /\ (/\ pc[t] = "c_begin" /\ pc'[t] # "c_begin" /\ phase' = "running"
              /\ (durability_level = VOLATILE \/ ~is_dirty))
                => (ret'[t] = "False" /\ fsvars' = fsvars /\ io' = io)
          /\ (FlushReturnsTrue(t) /\ payload[t] = serialize_compact(sketch))
                => /\ ret'[t] = "True"
                   /\ target' = FileOf(serialize_compact(sketch'))
                   /\ ~is_dirty']_vars

\* C10 amended: the same, for a flush that no other thread's flush
\* overlapped (no other flush changed a file between this flush opening its
\* file and returning).
C10_FlushOnce ==
    [][\A t \in Threads :
          /\ (/\ pc[t] = "c_begin" /\ pc'[t] # "c_begin" /\ phase' = "running"
              /\ (durability_level = VOLATILE \/ ~is_dirty))
                => (ret'[t] = "False" /\ fsvars' = fsvars /\ io' = io)
          /\ (/\ FlushReturnsTrue(t) /\ payload[t] = serialize_compact(sketch)
              /\ ~overlap[t])
                => /\ ret'[t] = "True"
                   /\ target' = FileOf(serialize_compact(sketch'))
                   /\ ~is_dirty']_vars

\* C10's case: a flush of a non-empty sketch has just returned True, the
\* file holds the sketch's serialization and the flag is false.
C10_Witness ==
    /\ phase = "running" /\ sketch # {} /\ ~is_dirty
    /\ target = FileOf(serialize_compact(sketch))
    /\ \E t \in Threads : ret[t] = "True" /\ pc[t] = "idle"


\* C6: in a mesh whose peer graph is weakly connected, with disjoint inputs,
\* no further ingest, fair client rounds and finitely many transport
\* failures, eventually every node's sketch equals the union of all inputs
\* and stays equal to it.
C6_Convergence ==
    <>[](\A n \in Nodes : mesh_sketch[n] = AllInputs)


\* C11: the step of update_sketch that follows the fold sets the dirty flag,
\* and under DELAYED or VOLATILE durability, from there until update_sketch
\* returns, the flag goes false only by a flush completing.
C11_UpdateLeavesDirty ==
    [][\A t \in Threads :
          /\ (pc[t] = "u_dirty" /\ pc'[t] # "u_dirty" /\ phase' = "running")
                => is_dirty'
          /\ (/\ durability_level # STRICT
              /\ pc[t] = "u_ret" /\ phase' = "running"
              /\ is_dirty /\ ~is_dirty')
                => \E u \in Threads : FlushReturnsTrue(u)]_vars


\* File f holds exactly the serialization of sketch s (a file that was never
\* written counting for the empty sketch).
FileMatches(f, s) ==
    IF f.exists THEN f.bytes = serialize_compact(s) ELSE s = {}

\* C12: under DELAYED durability, when stop_handler has returned without a
\* flush failure and the process exits, the sketch file holds the
\* serialization of the sketch as it is at exit and the dirty flag is false.
C12_ShutdownDurable ==
    [][(/\ phase = "running" /\ phase' = "exited"
        /\ durability_level = DELAYED
        /\ pc[Main] = "exit" /\ ret[Main] \in {"True", "False"})
          => FileMatches(target', sketch') /\ ~is_dirty']_vars


\* C13: under DELAYED durability, at the moment signal_handler restores the
\* previous disposition and re-raises, its flush not having failed, the
\* sketch file contains every datum whose update_sketch had returned.
C13_SignalFlushes ==
    (/\ phase = "running" /\ durability_level = DELAYED
     /\ pc[Main] = "sig_raise")
        => Holds(target, returned)


\* C14: in a gossip round, a transport failure of the push or the pull
\* against one peer leaves the node's sketch and dirty flag as they were,
\* ends that exchange only (the client thread stays in its round, with the
\* other sampled peers still to visit), and no step of an exchange before
\* its imerge changes the node's sketch or dirty flag.
C14_FailureIsolated ==
    [][\A n \in Nodes :
          (mesh_client'[n] # mesh_client[n] /\ mesh_client[n].pc # "m_replace")
             => /\ mesh_sketch'[n] = mesh_sketch[n]
                /\ mesh_is_dirty'[n] = mesh_is_dirty[n]
                /\ (mesh_fails' # mesh_fails)
                      => /\ mesh_client'[n].pc = "visit"
                         /\ mesh_client'[n].peer = 0
                         /\ mesh_client'[n].todo \in
                               {mesh_client[n].todo} \cup
                               {mesh_client[n].todo \ {p} : p \in mesh_client[n].todo}]_vars

\* C14's case: in the round in which its exchange with node 2 failed (node
\* 2's input has not reached it), node 1 has pushed to node 3 and pulled
\* node 3's sketch, which it is about to store.
C14_Witness ==
    /\ mesh_fails > 0
    /\ mesh_client[1].pc = "m_replace" /\ mesh_client[1].peer = 3
    /\ mesh_client[1].todo = {}
    /\ 2 \notin mesh_sketch[1]
    /\ 3 \in mesh_client[1].merged_sketch


\* C15: while the process runs, neither the periodic committer loop nor the
\* client gossip loop is ended by an error of one iteration (a flush I/O
\* failure, a failed exchange, an undecodable pulled payload): its thread
\* stays alive to run the next iteration.
C15_LoopsSurvive ==
    [][\A t \in {Client, Committer} :
          (phase' = "running" /\ pc[t] # "dead") => pc'[t] # "dead"]_vars


\* Thread t's push, or push_pull, fails on bytes that do not decode in this
\* step (the only error of a thread that is not inside an operation).
DecodeFails(t) ==
    /\ t \in Workers \cup {Client}
    /\ pc[t] = "idle" /\ op[t] = "none"
    /\ ret'[t] = "raise"
    /\ ops' # ops /\ fails' = fails
    /\ \A u \in Threads \ {t} : pc'[u] = pc[u]

\* C16: a push, or a pulled reply of push_pull, that does not decode fails
\* and leaves the sketch and the dirty flag as they were; a load at start
\* that fails does not replace the sketch.
C16_CorruptLeavesState ==
    [][/\ \A t \in Threads :
            DecodeFails(t) => (sketch' = sketch /\ is_dirty' = is_dirty)
       /\ (phase = "constructed" /\ phase' = "exited")
            => (sketch' = sketch /\ is_dirty' = is_dirty)]_vars

\* C16's case: a server worker's push failed on its payload while the node
\* holds a non-empty, dirty sketch.
C16_Witness ==
    /\ phase = "running" /\ durability_level = DELAYED
    /\ sketch # {} /\ is_dirty
    /\ \E t \in Workers : ret[t] = "raise" /\ pc[t] = "idle"

\* C17: imerge(other) replaces the local sketch with the union of the local
\* sketch and other, and sets the dirty flag to (old dirty OR the union differs
\* from the old local sketch); so merging a sketch already contained in the
\* local one changes neither the sketch nor the flag.  Stated on the two
\* stores of imerge: the store of self.is_dirty writes the disjunction taken
\* over the state it is stored into, and the store of self.sketch writes the
\* union of other with the sketch it replaces.
C17_ImergeUnion ==
    [][\A t \in Threads :
          /\ (pc[t] = "m_store" /\ pc'[t] = "m_replace")
                => is_dirty' = (is_dirty \/ hll_union(sketch, arg[t]) # sketch)
          /\ (pc[t] = "m_replace" /\ pc'[t] # "m_replace" /\ phase' = "running")
                => sketch' = hll_union(sketch, arg[t])]_vars

\* The sketch the one-shot load leaves for the file f.
Loaded(f) == IF sketch_file # "None" /\ f.exists THEN deserialize(f.bytes) ELSE {}

\* The one-shot load of the file f does not raise CorruptSketch.
Decodable(f) == sketch_file = "None" \/ ~f.exists \/ WellFormed(f.bytes)

\* C18: start_handler runs the one-shot load before any signal handler is
\* installed and before the server, client and committer threads start: until
\* the start has ended no thread is at work and no signal is handled, and
\* when it ends with the node running, the file, if it exists, was decodable
\* and the sketch is its deserialization, the sketch is empty if the file
\* does not exist, and the dirty flag is false in both cases.
C18_LoadBeforeStart ==
    [][/\ (phase' = "constructed")
            => /\ \A t \in Threads : pc'[t] = "off"
               /\ ~server_up' /\ server_thread' = "off"
       /\ (phase = "constructed" /\ phase' = "running")
            => /\ Decodable(target)
               /\ sketch' = Loaded(target)
               /\ ~is_dirty'
               /\ \A t \in Threads : pc'[t] \in {"off", "idle"}]_vars

\* The node has started from an existing file.
C18_Witness ==
    /\ phase = "running" /\ restarts = 0 /\ ops = 0 /\ signals = 0
    /\ target.exists /\ sketch = {1} /\ ~is_dirty
    /\ pc[Client] = "idle" /\ server_thread = "started"

\* C19: with reliable = false a call makes exactly one attempt, and a
\* transport error closes the connection and is raised to the caller; with
\* reliable = true a call never raises a transport error, retries after each
\* failure and returns only the result of an attempt that succeeded; in both
\* modes a failed attempt leaves the connection closed, and an attempt sends
\* only over a connection it found or made open.
C19_InvocationPolicy ==
    [][/\ (~helper.reliable /\ helper.pc # "idle" /\ helper'.pc = "idle")
            => helper'.attempts = 1
       /\ (~helper.reliable /\ helper'.fails # helper.fails)
            => helper'.pc = "idle" /\ helper'.result = "raised"
       /\ (helper.reliable /\ helper'.fails # helper.fails)
            => helper'.pc = "sleep" /\ helper'.result = "none"
       /\ (helper.pc = "sleep" /\ helper'.pc # "sleep")
            => helper'.pc = "invoke" /\ helper'.result = "none"
       /\ helper.reliable => helper'.result # "raised"
       /\ (helper.result # "returned" /\ helper'.result = "returned")
            => helper.pc = "call" /\ helper.is_open /\ helper'.fails = helper.fails
       /\ (helper'.fails # helper.fails) => ~helper'.is_open
       /\ (helper'.pc = "call") => helper'.is_open]_vars

\* A reliable call has returned the result of its third attempt, the two
\* before it having failed.
C19_Witness ==
    /\ helper.reliable /\ helper.result = "returned"
    /\ helper.attempts = 3 /\ helper.fails = 2 /\ helper.is_open

\* Scheduling: the main thread goes on through start and stop, the server
\* thread runs once started, and every thread inside an operation takes its
\* next step.  Signals, kills, I/O failures and new requests are not forced.
StopFairness ==
    /\ WF_vars(ServerWork)
    /\ WF_vars(StopServer(Main))
    /\ WF_vars(StopClient(Main))
    /\ WF_vars(StopCommitter(Main))
    /\ WF_vars(StopRestore(Main))
    /\ \A t \in Threads :
          /\ WF_vars(UpdateDirty(t)) /\ WF_vars(UpdateReturn(t))
          /\ WF_vars(ImergeDirty(t)) /\ WF_vars(ImergeStore(t))
          /\ WF_vars(ImergeReplace(t))
          /\ WF_vars(CommitterBegin(t)) /\ WF_vars(CommitterWrite(t))
          /\ WF_vars(CommitterFsync(t)) /\ WF_vars(CommitterReplace(t))
          /\ WF_vars(CommitterClear(t))

SpecStop == Init /\ [][Next]_vars /\ StopFairness

\* C20: stop_handler, called after start_handler, always terminates: once
\* entered it reaches its end (the process, unless killed meanwhile, goes on
\* to exit), having stopped the server, the client and the committer, flushed
\* under DELAYED and restored the signal handlers in that order.
C20_StopTerminates ==
    (phase = "running" /\ pc[Main] = "stop_server")
        ~> (phase # "running" \/ pc[Main] = "exit")

\* C22: no lost updates: in every interleaving of update_sketch with imerge
\* on the server workers and on the client thread, every item folded in by an
\* update_sketch call that has returned is still contained in the node's
\* sketch in every later state of that run of the node.
C22_NoLostUpdate ==
    (phase = "running" /\ restarts = 0) => returned \subseteq sketch

\* No update, merge or flush is in progress: every thread is between two
\* operations, not started, or ended.
Quiescent == \A t \in Threads : pc[t] \in {"idle", "off", "dead"}

\* C23: for a non-VOLATILE node, in every reachable state in which no update,
\* merge or flush is in progress and the dirty flag is false, the file at the
\* sketch-file path holds the compact serialization of the in-memory sketch,
\* an absent file counting as the empty sketch.
C23_CleanMeansPersisted ==
    (/\ phase = "running" /\ durability_level # VOLATILE
     /\ Quiescent /\ ~is_dirty)
        => FileMatches(target, sketch)

\* C21: after start_handler, called once or more, followed by stop_handler,
\* every signal is handled by the disposition installed before the node first
\* started and none by the node's handler; and whenever the node is outside
\* its handler, each delivery of a signal has been delegated to that original
\* disposition exactly once.
C21_HandlersRestored ==
    /\ (sigs.pc = "stopped")
          => \A s \in SignalKinds : sigs.handler[s] = "original"
    /\ (sigs.pc \in {"running", "stop", "stopped"})
          => \A s \in SignalKinds : sigs.delegated[s] = sigs.delivered[s]
====
